---------------------------- MODULE Spec2Model ----------------------------
(* Model of the three FlashSell browser smoke-test scripts:                *)
(*   src/test-frontend.py                 test_frontend                    *)
(*   src/flashsell-web/test_responsive.py test_responsive_design           *)
(*   src/flashsell-web/test_ui_design.py  test_ui_design                   *)
(* A behaviour is one run of one script.  The browser, the frontend and    *)
(* the backend are the environment: every value a script reads from them   *)
(* (a URL, an element count, a status, a bounding box) is an input, and    *)
(* every blocking call on them may raise.                                  *)
(* Text is a sequence of one-character strings, so that str.replace,       *)
(* f-string formatting and strftime are computed as the code computes      *)
(* them.  Result labels that are Chinese in the source are given ASCII     *)
(* names (the Label... definitions).                                       *)
EXTENDS Integers, Sequences, FiniteSets, TLC

VARIABLES
  script,          \* which script is run
  pc,              \* the statement the run is at
  browser,         \* "none" | "open" | "closed" (closed = browser.close() ran)
  playwright,      \* "none" | "running" | "stopped" (the with-block)
  rc,              \* process exit status, -1 while running
  out,             \* the lines printed by the last executed step
  raisedAt,        \* the step whose exception left the check sequence, "" if none
  results,         \* test_frontend: the list results
  console_errors,  \* test_frontend: the list console_errors
  failed_requests, \* test_frontend: the list failed_requests
  listeners,       \* test_frontend: events with a callback registered by page.on
  netlog,          \* environment: responses the page received so far
  conlog,          \* environment: console messages the page emitted so far
  health,          \* test_frontend: outcome of GET /api/health
  dev,             \* test_responsive_design: index of the current device
  pg,              \* test_responsive_design: index of the current page
  timestamp,       \* the string strftime returned
  screenshots,     \* test_responsive_design: files written by page.screenshot
  scroll_width,    \* test_responsive_design: document.body.scrollWidth read
  buttons,         \* test_responsive_design: bounding boxes of locator('button').all()
  small_buttons,   \* test_responsive_design: the counter small_buttons
  pair_fail        \* test_responsive_design: failure lines printed for the current pair

vars == <<script, pc, browser, playwright, rc, out, raisedAt, results,
          console_errors, failed_requests, listeners, netlog, conlog, health,
          dev, pg, timestamp, screenshots, scroll_width, buttons, small_buttons,
          pair_fail>>

frontVars == <<results, console_errors, failed_requests, listeners, health>>
envVars   == <<netlog, conlog>>
respVars  == <<dev, pg, screenshots, scroll_width, buttons, small_buttons,
               pair_fail>>

-----------------------------------------------------------------------------
(* Bounds of the model *)

MaxResponses == 2    \* responses the page receives in one run
MaxConsole   == 2    \* console messages the page emits in one run
MaxButtons   == 6    \* button elements a page holds

-----------------------------------------------------------------------------
(* Text *)

Line(msg, n) == [msg |-> msg, n |-> n]

RECURSIVE Replace(_, _, _)
\* str.replace(old, new) for one-character old and new
Replace(s, old, new) ==
  IF s = <<>> THEN <<>>
  ELSE <<IF Head(s) = old THEN new ELSE Head(s)>> \o Replace(Tail(s), old, new)

\* whether text t occurs in text s
Contains(s, t) ==
  \E i \in 1..(Len(s) - Len(t) + 1) : SubSeq(s, i, i + Len(t) - 1) = t

Digits == <<"0", "1", "2", "3", "4", "5", "6", "7", "8", "9">>

Digit(n) == Digits[n + 1]

\* %m, %d, %H, %M, %S: two digits, zero padded
Pad2(n) == <<Digit((n \div 10) % 10), Digit(n % 10)>>

\* %Y: four digits
Pad4(n) == Pad2(n \div 100) \o Pad2(n % 100)

\* time.strftime('%Y%m%d_%H%M%S') of local time t = <<Y, m, d, H, M, S>>
Strftime(t) ==
  Pad4(t[1]) \o Pad2(t[2]) \o Pad2(t[3]) \o <<"_">> \o
  Pad2(t[4]) \o Pad2(t[5]) \o Pad2(t[6])

\* the local times a run may start at
Times == { <<2024, 1, 5, 9, 3, 7>>, <<2025, 12, 31, 23, 59, 58>> }


-----------------------------------------------------------------------------
(* Inputs read from the environment *)

MaxElems == 2        \* elements a locator matches

Counts == 0..MaxElems

Urls == {"http://localhost:3000/", "http://localhost:3000/login"}

\* statuses of GET /api/health
Statuses == {200, 503}

\* statuses of the responses the page receives
ResponseStatuses == {200, 399, 400}

ConsoleTypes == {"error", "log"}

-----------------------------------------------------------------------------
(* test_frontend: src/test-frontend.py *)

LabelHome       == "HomeVisit"        \* shou ye fang wen, line 35
LabelNav        == "NavBar"           \* dao hang lan, line 47
LabelAuth       == "AuthButton"       \* ren zheng an niu, line 52
LabelApi        == "ApiProxy"         \* "API dai li", lines 61 and 64
LabelResponsive == "ResponsiveDesign" \* xiang ying shi she ji, line 72
LabelResources  == "ResourceLoading"  \* zi yuan jia zai, lines 99 and 102
LabelJs         == "NoJsErrors"       \* "JavaScript wu cuo wu", lines 110 and 113
LabelRun        == "TestExecution"    \* ce shi zhi xing, line 117

\* the statements of the try block that call the browser and block on it
FBlocking == {"goto", "title", "shot_home", "nav", "login_btn", "api",
              "viewport", "wait_idle", "shot_mobile", "restore", "reload"}

\* the statements of the try block whose exception reaches line 115
\* (the request of line 58 has its own handler)
FThrowing == FBlocking \ {"api"}

\* the callbacks registered before the try block, line 22
ListenersAtStart == {"console"}

\* the callbacks registered by lines 90-91
ListenersAtCheck5 == {"request", "response"}

\* on_console, lines 19-21
on_console(errors, type, text) ==
  IF type = "error" THEN Append(errors, text) ELSE errors

\* log_response with "> 400" for ">= 400"
log_responseAbove400(failed, status) ==
  IF status > 400 THEN Append(failed, status) ELSE failed

\* log_response, lines 86-88
log_response(failed, status) ==
  IF status >= 400 THEN Append(failed, status) ELSE failed

\* line 127: passed = sum(1 for _, result in results if result)
Passed(rs) == Cardinality({i \in 1..Len(rs) : rs[i][2]})

\* line 137 with "passed > 0" for "passed == total"
ExitCodeAnyPassed(rs) == IF Passed(rs) > 0 THEN 0 ELSE 1

\* line 137: return 0 if passed == total else 1
ExitCode(rs) == IF Passed(rs) = Len(rs) THEN 0 ELSE 1

\* which call a response arrives in
During(at) == IF at = "reload" THEN "reload" ELSE "earlier"

\* the page emits a console message while the script blocks in a call
ConsoleEvent ==
  /\ script = "frontend" /\ pc \in FBlocking
  /\ Len(conlog) < MaxConsole
  /\ \E type \in ConsoleTypes :
       /\ conlog' = Append(conlog, type)
       /\ console_errors' = IF "console" \in listeners
                            THEN on_console(console_errors, type, "msg")
                            ELSE console_errors
  /\ UNCHANGED <<script, pc, browser, playwright, rc, out, raisedAt, results,
                 failed_requests, listeners, netlog, health, timestamp>>
  /\ UNCHANGED respVars

\* the page receives a response while the script blocks in a call
ResponseEvent ==
  /\ script = "frontend" /\ pc \in FBlocking
  /\ Len(netlog) < MaxResponses
  /\ \E status \in ResponseStatuses :
       /\ netlog' = Append(netlog, [status |-> status, during |-> During(pc)])
       /\ failed_requests' = IF "response" \in listeners
                             THEN log_response(failed_requests, status)
                             ELSE failed_requests
  /\ UNCHANGED <<script, pc, browser, playwright, rc, out, raisedAt, results,
                 console_errors, listeners, conlog, health, timestamp>>
  /\ UNCHANGED respVars

\* a step of the try block that only moves on
FGo(from, to, printed) ==
  /\ script = "frontend" /\ pc = from
  /\ pc' = to /\ out' = printed
  /\ UNCHANGED <<script, browser, playwright, rc, raisedAt, timestamp>>
  /\ UNCHANGED envVars /\ UNCHANGED respVars

\* lines 13-22: launch, new_page, console_errors = [], page.on("console")
FLaunch ==
  /\ script = "frontend" /\ pc = "launch"
  /\ browser' = "open" /\ playwright' = "running"
  /\ console_errors' = <<>> /\ listeners' = ListenersAtStart
  /\ pc' = "goto" /\ out' = <<>>
  /\ UNCHANGED <<script, rc, raisedAt, results, failed_requests, health, timestamp>>
  /\ UNCHANGED envVars /\ UNCHANGED respVars

\* lines 25-31: page.goto(..., wait_until='networkidle', timeout=10000)
FGoto ==
  /\ FGo("goto", "title", <<Line("test1", 0)>>)
  /\ UNCHANGED frontVars

\* lines 32-35: title, url, results.append(("HomeVisit", url == ...))
FHome ==
  /\ \E url \in Urls :
       results' = Append(results, <<LabelHome, url = "http://localhost:3000/">>)
  /\ FGo("title", "shot_home", <<Line("title_url", 0)>>)
  /\ UNCHANGED <<console_errors, failed_requests, listeners, health>>

\* lines 38-39: page.screenshot(path='/tmp/flashsell-home.png')
FShotHome ==
  /\ FGo("shot_home", "nav", <<Line("shot_home", 0)>>)
  /\ UNCHANGED frontVars

\* lines 45-47: nav = page.locator('nav').count(); append(("NavBar", nav > 0))
FNav ==
  /\ \E nav \in Counts :
       results' = Append(results, <<LabelNav, nav > 0>>)
  /\ FGo("nav", "login_btn", <<Line("nav", 0)>>)
  /\ UNCHANGED <<console_errors, failed_requests, listeners, health>>

\* lines 50-52: login_btn = ....count(); append(("AuthButton", login_btn > 0))
FLoginBtn ==
  /\ \E login_btn \in Counts :
       results' = Append(results, <<LabelAuth, login_btn > 0>>)
  /\ FGo("login_btn", "api", <<Line("login_btn", 0)>>)
  /\ UNCHANGED <<console_errors, failed_requests, listeners, health>>

\* lines 57-64 with the request raising at line 58: the handler of line 62
\* escapes to the handler of line 115
FApiProxyNoLocalHandler ==
  \/ /\ \E status \in Statuses :
          /\ health' = status
          /\ results' = Append(results, <<LabelApi, status = 200>>)
     /\ FGo("api", "viewport", <<Line("api_status", 0)>>)
     /\ UNCHANGED <<console_errors, failed_requests, listeners>>
  \/ /\ script = "frontend" /\ pc = "api"
     /\ health' = -1
     /\ pc' = "except" /\ raisedAt' = "api" /\ out' = <<>>
     /\ UNCHANGED <<script, browser, playwright, rc, timestamp, results,
                    console_errors, failed_requests, listeners>>
     /\ UNCHANGED envVars /\ UNCHANGED respVars

\* lines 55-64: try: response = page.request.get('/api/health');
\* api_status = response.status == 200; append(("ApiProxy", api_status))
\* except Exception: append(("ApiProxy", False))
FApiProxy ==
  /\ \/ \E status \in Statuses :
          /\ health' = status
          /\ results' = Append(results, <<LabelApi, status = 200>>)
     \/ /\ health' = -1
        /\ results' = Append(results, <<LabelApi, FALSE>>)
  /\ FGo("api", "viewport", <<Line("api_status", 0)>>)
  /\ UNCHANGED <<console_errors, failed_requests, listeners>>

\* lines 67-68: page.set_viewport_size({"width": 375, "height": 667})
FViewport ==
  /\ FGo("viewport", "wait_idle", <<Line("test4", 0)>>)
  /\ UNCHANGED frontVars

\* line 69: page.wait_for_load_state('networkidle')
FWaitIdle ==
  /\ FGo("wait_idle", "shot_mobile", <<>>)
  /\ UNCHANGED frontVars

\* lines 70-72: screenshot; results.append(("ResponsiveDesign", True))
FShotMobile ==
  /\ results' = Append(results, <<LabelResponsive, TRUE>>)
  /\ FGo("shot_mobile", "restore", <<Line("shot_mobile", 0)>>)
  /\ UNCHANGED <<console_errors, failed_requests, listeners, health>>

\* line 75: page.set_viewport_size({"width": 1920, "height": 1080})
FRestore ==
  /\ FGo("restore", "register", <<>>)
  /\ UNCHANGED frontVars

\* lines 78-91: failed_requests = []; page.on("request"); page.on("response")
FRegister ==
  /\ failed_requests' = <<>>
  /\ listeners' = listeners \cup ListenersAtCheck5
  /\ FGo("register", "reload", <<Line("test5", 0)>>)
  /\ UNCHANGED <<results, console_errors, health>>

\* line 93: page.reload(wait_until='networkidle')
FReload ==
  /\ FGo("reload", "check_res", <<>>)
  /\ UNCHANGED frontVars

\* lines 95-102: if failed_requests: append(("ResourceLoading", False)) else True
FCheckResources ==
  /\ results' = Append(results, <<LabelResources, failed_requests = <<>> >>)
  /\ FGo("check_res", "check_js",
         IF failed_requests # <<>>
         THEN <<Line("failed_requests", Len(failed_requests))>>
         ELSE <<Line("resources_ok", 0)>>)
  /\ UNCHANGED <<console_errors, failed_requests, listeners, health>>

\* lines 105-113: if console_errors: append(("NoJsErrors", False)) else True
FCheckJs ==
  /\ results' = Append(results, <<LabelJs, console_errors = <<>> >>)
  /\ FGo("check_js", "finally",
         IF console_errors # <<>>
         THEN <<Line("console_errors", Len(console_errors))>>
         ELSE <<Line("js_ok", 0)>>)
  /\ UNCHANGED <<console_errors, failed_requests, listeners, health>>

\* the exception is swallowed: control moves to line 119 past the handler
FThrowPastHandler ==
  /\ script = "frontend" /\ pc \in FThrowing
  /\ pc' = "finally" /\ raisedAt' = pc /\ out' = <<>>
  /\ UNCHANGED <<script, browser, playwright, rc, timestamp>>
  /\ UNCHANGED frontVars /\ UNCHANGED envVars /\ UNCHANGED respVars

\* a blocking call of the try block raises (unreachable server, timeout,
\* closed page): control moves to the handler of line 115
FThrow ==
  /\ script = "frontend" /\ pc \in FThrowing
  /\ pc' = "except" /\ raisedAt' = pc /\ out' = <<>>
  /\ UNCHANGED <<script, browser, playwright, rc, timestamp>>
  /\ UNCHANGED frontVars /\ UNCHANGED envVars /\ UNCHANGED respVars

\* lines 115-117 without the append of line 117
FExceptNoResult ==
  /\ FGo("except", "finally", <<Line("test_failed", 0)>>)
  /\ UNCHANGED frontVars

\* lines 115-117: except Exception: print; results.append(("TestExecution", False))
FExcept ==
  /\ results' = Append(results, <<LabelRun, FALSE>>)
  /\ FGo("except", "finally", <<Line("test_failed", 0)>>)
  /\ UNCHANGED <<console_errors, failed_requests, listeners, health>>

\* lines 119-120: finally: browser.close()
FFinally ==
  /\ script = "frontend" /\ pc = "finally"
  /\ browser' = "closed"
  /\ pc' = "summary" /\ out' = <<>>
  /\ UNCHANGED <<script, playwright, rc, raisedAt, timestamp>>
  /\ UNCHANGED frontVars /\ UNCHANGED envVars /\ UNCHANGED respVars

\* end of the with block, then lines 122-140: the summary and sys.exit
FSummary ==
  /\ script = "frontend" /\ pc = "summary"
  /\ playwright' = "stopped"
  /\ out' = <<Line("passed", Passed(results)), Line("total", Len(results))>>
  /\ rc' = ExitCode(results)
  /\ pc' = "done"
  /\ UNCHANGED <<script, browser, raisedAt, timestamp>>
  /\ UNCHANGED frontVars /\ UNCHANGED envVars /\ UNCHANGED respVars

FrontendNext ==
  \/ FLaunch \/ FGoto \/ FHome \/ FShotHome \/ FNav \/ FLoginBtn \/ FApiProxy
  \/ FViewport \/ FWaitIdle \/ FShotMobile \/ FRestore \/ FRegister \/ FReload
  \/ FCheckResources \/ FCheckJs \/ FThrow \/ FExcept \/ FFinally \/ FSummary
  \/ ConsoleEvent \/ ResponseEvent


-----------------------------------------------------------------------------
(* test_responsive_design: src/flashsell-web/test_responsive.py *)

\* lines 9-16, in insertion order
DEVICE_SIZES == <<
  [name |-> <<"i", "P", "h", "o", "n", "e", " ", "S", "E">>,
   width |-> 375, height |-> 667],
  [name |-> <<"i", "P", "h", "o", "n", "e", " ", "1", "2">>,
   width |-> 390, height |-> 844],
  [name |-> <<"i", "P", "a", "d">>,
   width |-> 768, height |-> 1024],
  [name |-> <<"i", "P", "a", "d", " ", "P", "r", "o">>,
   width |-> 1024, height |-> 1366],
  [name |-> <<"D", "e", "s", "k", "t", "o", "p">>,
   width |-> 1440, height |-> 900],
  [name |-> <<"L", "a", "r", "g", "e", " ", "D", "e", "s", "k", "t", "o", "p">>,
   width |-> 1920, height |-> 1080] >>

\* lines 18-25
PAGES_TO_TEST == <<
  [url |-> <<"/">>,
   name |-> <<"H", "o", "m", "e">>],
  [url |-> <<"/", "p", "r", "o", "f", "i", "l", "e">>,
   name |-> <<"P", "r", "o", "f", "i", "l", "e">>],
  [url |-> <<"/", "m", "a", "r", "k", "e", "t">>,
   name |-> <<"M", "a", "r", "k", "e", "t">>],
  [url |-> <<"/", "s", "u", "b", "s", "c", "r", "i", "p", "t", "i", "o", "n">>,
   name |-> <<"S", "u", "b", "s", "c", "r", "i", "p", "t", "i", "o", "n">>],
  [url |-> <<"/", "h", "o", "t", "-", "p", "r", "o", "d", "u", "c", "t", "s">>,
   name |-> <<"H", "o", "t", "P", "r", "o", "d", "u", "c", "t", "s">>],
  [url |-> <<"/", "f", "a", "v", "o", "r", "i", "t", "e", "s">>,
   name |-> <<"F", "a", "v", "o", "r", "i", "t", "e", "s">>] >>

ScrollTolerance == 10   \* line 78
NavBreakpoint   == 768  \* line 88
MobileMaxWidth  == 480  \* line 108
SampleSize      == 5    \* line 111
TouchMin        == 44   \* line 116

\* the values document.body.scrollWidth may have in a viewport of width vw
ScrollWidths(vw) == {vw + ScrollTolerance, vw + ScrollTolerance + 1}

\* btn.bounding_box(): None (box = FALSE) for an element that is not visible
NoBox == [box |-> FALSE, width |-> 0, height |-> 0]

Box(w, h) == [box |-> TRUE, width |-> w, height |-> h]

Boxes == {NoBox, Box(TouchMin, TouchMin - 1), Box(TouchMin, TouchMin)}

\* the lists page.locator('button').all() may return
ButtonLists == UNION {[1..n -> Boxes] : n \in 0..MaxButtons}

\* buttons[:5]
FirstFive(bs) == SubSeq(bs, 1, IF Len(bs) < SampleSize THEN Len(bs) ELSE SampleSize)

\* lines 112-117 with "and" for "or"
IsSmallBoth(b) == b.box /\ (b.width < TouchMin /\ b.height < TouchMin)

\* lines 112-117: if box: ... if width < 44 or height < 44: small_buttons += 1
IsSmall(b) == b.box /\ (b.width < TouchMin \/ b.height < TouchMin)

RECURSIVE CountSmall(_)
\* lines 110-117: the loop over buttons[:5]
CountSmall(bs) ==
  IF bs = <<>> THEN 0
  ELSE (IF IsSmall(Head(bs)) THEN 1 ELSE 0) + CountSmall(Tail(bs))

\* line 78 without the tolerance
HasHorizontalScrollNoTolerance(sw, vw) == sw > vw

\* line 78: scroll_width > viewport_width + 10
HasHorizontalScroll(sw, vw) == sw > vw + ScrollTolerance

\* line 125 without the page name
ScreenshotNameNoPage(device_name, page_name, ts) ==
  <<"r", "e", "s", "p", "o", "n", "s", "i", "v", "e", "_">> \o
  Replace(device_name, " ", "_") \o <<"_">> \o ts \o <<".", "p", "n", "g">>

\* line 125: f"responsive_{device_name.replace(' ', '_')}_{page_info['name']}_{timestamp}.png"
ScreenshotName(device_name, page_name, ts) ==
  <<"r", "e", "s", "p", "o", "n", "s", "i", "v", "e", "_">> \o
  Replace(device_name, " ", "_") \o <<"_">> \o page_name \o <<"_">> \o ts \o
  <<".", "p", "n", "g">>

\* the statements of test_responsive_design that call the browser outside
\* any try block
RThrowing == {"login_goto", "login_idle", "fill_phone", "fill_code",
              "click_login", "set_viewport", "page_goto", "page_idle",
              "scroll", "sidebar", "main", "cards", "touch", "screenshot",
              "close"}

\* a step that only moves on
RGo(from, to, printed) ==
  /\ script = "responsive" /\ pc = from
  /\ pc' = to /\ out' = printed
  /\ UNCHANGED <<script, browser, playwright, rc, raisedAt>>
  /\ UNCHANGED frontVars /\ UNCHANGED envVars

\* lines 29-34: launch(headless=False), new_page
RLaunch ==
  /\ script = "responsive" /\ pc = "launch"
  /\ browser' = "open" /\ playwright' = "running"
  /\ pc' = "login_goto" /\ out' = <<Line("start", 0)>>
  /\ UNCHANGED <<script, rc, raisedAt, timestamp>>
  /\ UNCHANGED frontVars /\ UNCHANGED envVars /\ UNCHANGED respVars

\* lines 37-38: page.goto('http://localhost:3001/login')
RLoginGoto ==
  /\ RGo("login_goto", "login_idle", <<Line("login", 0)>>)
  /\ UNCHANGED timestamp /\ UNCHANGED respVars

\* line 39: page.wait_for_load_state('networkidle')
RLoginIdle ==
  /\ RGo("login_idle", "fill_phone", <<>>)
  /\ UNCHANGED timestamp /\ UNCHANGED respVars

\* line 42: page.fill('input[type="tel"]', '13800138000')
RFillPhone ==
  /\ RGo("fill_phone", "fill_code", <<>>)
  /\ UNCHANGED timestamp /\ UNCHANGED respVars

\* line 43: page.fill('input[placeholder*=...]', '123456')
RFillCode ==
  /\ RGo("fill_code", "click_login", <<>>)
  /\ UNCHANGED timestamp /\ UNCHANGED respVars

\* line 44: page.click('button:has-text(...)')
RClickLogin ==
  /\ RGo("click_login", "wait_url", <<>>)
  /\ UNCHANGED timestamp /\ UNCHANGED respVars

\* lines 47-48: page.wait_for_url('**/', timeout=5000) returns, or raises
\* TimeoutError inside the try block
RWaitUrl ==
  /\ \/ RGo("wait_url", "login_ok", <<>>)
     \/ RGo("wait_url", "login_except", <<>>)
  /\ UNCHANGED timestamp /\ UNCHANGED respVars

\* line 49: print the success line
RLoginOk ==
  /\ RGo("login_ok", "strftime", <<Line("login_ok", 0)>>)
  /\ UNCHANGED timestamp /\ UNCHANGED respVars

\* lines 50-51 with a handler that raises again
RLoginExceptReraise ==
  /\ script = "responsive" /\ pc = "login_except"
  /\ pc' = "crashed" /\ raisedAt' = "wait_url" /\ out' = <<Line("traceback", 0)>>
  /\ playwright' = "stopped" /\ rc' = 1
  /\ UNCHANGED <<script, browser, timestamp>>
  /\ UNCHANGED frontVars /\ UNCHANGED envVars /\ UNCHANGED respVars

\* lines 50-51: except: print the warning line
RLoginExcept ==
  /\ RGo("login_except", "strftime", <<Line("login_warning", 0)>>)
  /\ UNCHANGED timestamp /\ UNCHANGED respVars

\* line 53: timestamp = time.strftime('%Y%m%d_%H%M%S'); line 56: first device
RStrftime ==
  /\ \E t \in Times : timestamp' = Strftime(t)
  /\ RGo("strftime", "set_viewport", <<>>)
  /\ dev' = 1
  /\ UNCHANGED <<pg, screenshots, scroll_width, buttons, small_buttons,
                 pair_fail>>

\* lines 57-63: print the device; page.set_viewport_size(size);
\* page.wait_for_timeout(500); line 66: first page
RSetViewport ==
  /\ RGo("set_viewport", "page_goto", <<Line("device", DEVICE_SIZES[dev].width)>>)
  /\ pg' = 1
  /\ UNCHANGED <<timestamp, dev, screenshots, scroll_width, buttons,
                 small_buttons, pair_fail>>

\* lines 67-70: page.goto(f'http://localhost:3001{page_info["url"]}')
RPageGoto ==
  /\ RGo("page_goto", "page_idle", <<Line("page", pg)>>)
  /\ UNCHANGED timestamp /\ UNCHANGED respVars

\* lines 71-72: wait_for_load_state('networkidle'); wait_for_timeout(1000)
RPageIdle ==
  /\ RGo("page_idle", "scroll", <<>>)
  /\ UNCHANGED timestamp /\ UNCHANGED respVars

\* lines 75-81: scroll_width = page.evaluate('document.body.scrollWidth');
\* the failure line if scroll_width > viewport_width + 10, else the ok line
RScroll ==
  /\ script = "responsive" /\ pc = "scroll"
  /\ \E sw \in ScrollWidths(DEVICE_SIZES[dev].width) :
       /\ scroll_width' = sw
       /\ IF HasHorizontalScroll(sw, DEVICE_SIZES[dev].width)
          THEN /\ out' = <<Line("scroll_fail", sw)>>
               /\ pair_fail' = Append(pair_fail, Line("scroll_fail", sw))
          ELSE /\ out' = <<Line("scroll_ok", sw)>>
               /\ pair_fail' = pair_fail
  /\ pc' = "sidebar"
  /\ UNCHANGED <<script, browser, playwright, rc, raisedAt, timestamp, dev, pg,
                 screenshots, buttons, small_buttons>>
  /\ UNCHANGED frontVars /\ UNCHANGED envVars

\* lines 85-91: if sidebar.is_visible(): print by size['width'] < 768
RSidebar ==
  /\ script = "responsive" /\ pc = "sidebar"
  /\ \E visible \in BOOLEAN :
       out' = IF ~visible THEN <<>>
              ELSE IF DEVICE_SIZES[dev].width < NavBreakpoint
                   THEN <<Line("nav_mobile", 0)>>
                   ELSE <<Line("nav_desktop", 0)>>
  /\ pc' = "main"
  /\ UNCHANGED <<script, browser, playwright, rc, raisedAt, timestamp>>
  /\ UNCHANGED frontVars /\ UNCHANGED envVars /\ UNCHANGED respVars

\* lines 94-97: if main_content.is_visible(): print its offsetWidth
RMain ==
  /\ script = "responsive" /\ pc = "main"
  /\ \E visible \in BOOLEAN :
       out' = IF visible THEN <<Line("main_width", DEVICE_SIZES[dev].width)>>
              ELSE <<>>
  /\ pc' = "cards"
  /\ UNCHANGED <<script, browser, playwright, rc, raisedAt, timestamp>>
  /\ UNCHANGED frontVars /\ UNCHANGED envVars /\ UNCHANGED respVars

\* lines 100-105: card_count = cards.count(); if card_count > 0: print
RCards ==
  /\ script = "responsive" /\ pc = "cards"
  /\ \E card_count \in Counts :
       out' = IF card_count > 0 THEN <<Line("cards", card_count)>> ELSE <<>>
  /\ pc' = "touch"
  /\ UNCHANGED <<script, browser, playwright, rc, raisedAt, timestamp>>
  /\ UNCHANGED frontVars /\ UNCHANGED envVars /\ UNCHANGED respVars

\* lines 108-122: if size['width'] <= 480: count the small boxes among
\* buttons[:5]; print the ok line if small_buttons == 0, else the count
RTouch ==
  /\ script = "responsive" /\ pc = "touch"
  /\ IF DEVICE_SIZES[dev].width <= MobileMaxWidth
     THEN \E bs \in ButtonLists :
            /\ buttons' = bs
            /\ small_buttons' = CountSmall(FirstFive(bs))
            /\ out' = IF CountSmall(FirstFive(bs)) = 0
                      THEN <<Line("touch_ok", 0)>>
                      ELSE <<Line("touch_small", CountSmall(FirstFive(bs)))>>
     ELSE /\ out' = <<>>
          /\ UNCHANGED <<buttons, small_buttons>>
  /\ pc' = "screenshot"
  /\ UNCHANGED <<script, browser, playwright, rc, raisedAt, timestamp, dev, pg,
                 screenshots, scroll_width, pair_fail>>
  /\ UNCHANGED frontVars /\ UNCHANGED envVars

\* lines 125-127: page.screenshot(path=screenshot_name, full_page=True);
\* then the next page (line 66), the next device (line 56) or line 129.
\* The values read for this pair are not read again and are reset.
RScreenshot ==
  /\ script = "responsive" /\ pc = "screenshot"
  /\ LET name == ScreenshotName(DEVICE_SIZES[dev].name, PAGES_TO_TEST[pg].name,
                                timestamp)
     IN /\ screenshots' = Append(screenshots,
                                 [device |-> dev, page |-> pg, name |-> name])
        /\ out' = <<Line("screenshot", Len(name))>>
  /\ IF pg < Len(PAGES_TO_TEST)
     THEN pg' = pg + 1 /\ dev' = dev /\ pc' = "page_goto"
     ELSE IF dev < Len(DEVICE_SIZES)
          THEN pg' = pg /\ dev' = dev + 1 /\ pc' = "set_viewport"
          ELSE pg' = pg /\ dev' = dev /\ pc' = "close"
  /\ scroll_width' = 0 /\ buttons' = <<>> /\ small_buttons' = 0
  /\ pair_fail' = <<>>
  /\ UNCHANGED <<script, browser, playwright, rc, raisedAt, timestamp>>
  /\ UNCHANGED frontVars /\ UNCHANGED envVars

\* a browser call raises: nothing catches it, the with block of line 29
\* is left and the interpreter exits with a traceback and status 1; the
\* values local to the pair are gone with the frame
RThrow ==
  /\ script = "responsive" /\ pc \in RThrowing
  /\ pc' = "crashed" /\ raisedAt' = pc /\ out' = <<Line("traceback", 0)>>
  /\ playwright' = "stopped" /\ rc' = 1
  /\ scroll_width' = 0 /\ buttons' = <<>> /\ small_buttons' = 0
  /\ pair_fail' = <<>>
  /\ UNCHANGED <<script, browser, timestamp, dev, pg, screenshots>>
  /\ UNCHANGED frontVars /\ UNCHANGED envVars

\* line 129: browser.close()
RClose ==
  /\ script = "responsive" /\ pc = "close"
  /\ browser' = "closed"
  /\ pc' = "summary" /\ out' = <<>>
  /\ UNCHANGED <<script, playwright, rc, raisedAt, timestamp>>
  /\ UNCHANGED frontVars /\ UNCHANGED envVars /\ UNCHANGED respVars

\* lines 131-144: the summary; the with block ends; the script exits
RSummary ==
  /\ script = "responsive" /\ pc = "summary"
  /\ out' = <<Line("devices", Len(DEVICE_SIZES)),
              Line("pages", Len(PAGES_TO_TEST)),
              Line("screenshots", Len(DEVICE_SIZES) * Len(PAGES_TO_TEST))>>
  /\ playwright' = "stopped" /\ rc' = 0
  /\ pc' = "done"
  /\ UNCHANGED <<script, browser, raisedAt, timestamp>>
  /\ UNCHANGED frontVars /\ UNCHANGED envVars /\ UNCHANGED respVars

ResponsiveNext ==
  \/ RLaunch \/ RLoginGoto \/ RLoginIdle \/ RFillPhone \/ RFillCode
  \/ RClickLogin \/ RWaitUrl \/ RLoginOk \/ RLoginExcept \/ RStrftime \/ RSetViewport \/ RPageGoto
  \/ RPageIdle \/ RScroll \/ RSidebar \/ RMain \/ RCards \/ RTouch
  \/ RScreenshot \/ RThrow \/ RClose \/ RSummary


-----------------------------------------------------------------------------
(* test_ui_design: src/flashsell-web/test_ui_design.py *)

\* the statements of test_ui_design after the launch, in program order
UISteps == <<
  "login_goto",        \* lines 18-19  page.goto('http://localhost:3001/login')
  "login_idle",        \* line 20      wait_for_load_state('networkidle')
  "bg_color",          \* lines 23-26  assert on the background colour
  "form_card",         \* lines 29-31  assert form_card.is_visible()
  "logo",              \* lines 34-36  assert orange_elements.is_visible()
  "focus_click",       \* lines 39-41  phone_input.click(); wait_for_timeout(200)
  "focus_ring",        \* lines 43-45  phone_input.evaluate(...)
  "fill_phone",        \* lines 48-49  phone_input.fill('13800138000')
  "fill_code",         \* lines 52-53  code_input.fill('123456')
  "click_login",       \* lines 56-57  login_btn.click()
  "wait_url",          \* lines 60-64  try: wait_for_url(timeout=5000) except:
  "idle_after_login",  \* line 66      wait_for_load_state('networkidle')
  "home_header",       \* lines 69-76  if page_header.is_visible(): ... else: ...
  "home_cards",        \* lines 79-83  assert card_count > 0
  "home_orange",       \* lines 86-89  orange_elements.count()
  "profile_goto",      \* lines 92-93  page.goto('.../profile')
  "profile_idle",      \* line 94      wait_for_load_state('networkidle')
  "profile_header",    \* lines 97-99  assert profile_header.is_visible()
  "profile_tabs",      \* lines 102-104 assert tabs.count() >= 2
  "active_tab",        \* lines 107-111 if active_tab.is_visible(): ... else: ...
  "market_goto",       \* lines 114-115 page.goto('.../market')
  "market_idle",       \* line 116     wait_for_load_state('networkidle')
  "market_header",     \* lines 119-121 if market_header.is_visible(): ...
  "filter_card",       \* lines 124-126 assert filter_card.is_visible()
  "export_btn",        \* lines 129-133 if export_btn.is_visible(): ...
  "subscription_goto", \* lines 136-137 page.goto('.../subscription')
  "subscription_idle", \* line 138     wait_for_load_state('networkidle')
  "plan_cards",        \* lines 141-145 assert plan_count > 0
  "hot_goto",          \* lines 148-149 page.goto('.../hot-products')
  "hot_idle",          \* line 150     wait_for_load_state('networkidle')
  "hot_header",        \* lines 153-155 if hot_header.is_visible(): ...
  "favorites_goto",    \* lines 158-159 page.goto('.../favorites')
  "favorites_idle",    \* line 160     wait_for_load_state('networkidle')
  "fav_tabs",          \* lines 163-165 assert fav_tabs.count() >= 2
  "clickable",         \* lines 168-172 clickable_elements.count()
  "strftime",          \* lines 175-176 timestamp = time.strftime(...)
  "shot_home_goto",    \* line 179     page.goto('http://localhost:3001/')
  "shot_home_idle",    \* line 180     wait_for_load_state('networkidle')
  "shot_home",         \* lines 181-182 page.screenshot(path=...)
  "shot_profile_goto", \* line 185     page.goto('.../profile')
  "shot_profile_idle", \* line 186     wait_for_load_state('networkidle')
  "shot_profile",      \* lines 187-188 page.screenshot(path=...)
  "close" >>           \* line 190     browser.close()

\* the statements that hold an assert
UIAsserts == {"bg_color", "form_card", "logo", "home_cards", "profile_header",
              "profile_tabs", "filter_card", "plan_cards", "fav_tabs"}

\* the statements with an action of their own
UISpecial == {"wait_url", "strftime", "close"}

\* the statements that call the browser outside any try block
UIThrowing == {UISteps[i] : i \in 1..Len(UISteps)} \ {"wait_url", "strftime"}

UIIndex(at) == CHOOSE i \in 1..Len(UISteps) : UISteps[i] = at

UIAfter(at) == UISteps[UIIndex(at) + 1]

UIAt(S) ==
  /\ script = "ui"
  /\ \E i \in 1..Len(UISteps) : pc = UISteps[i] /\ pc \in S

\* lines 10-15: launch(headless=False), new_page
ULaunch ==
  /\ script = "ui" /\ pc = "launch"
  /\ browser' = "open" /\ playwright' = "running"
  /\ pc' = UISteps[1] /\ out' = <<Line("start", 0)>>
  /\ UNCHANGED <<script, rc, raisedAt, timestamp>>
  /\ UNCHANGED frontVars /\ UNCHANGED envVars /\ UNCHANGED respVars

\* a statement runs to its end: its calls return and its assert, if it has
\* one, holds
UStep ==
  /\ UIAt({UISteps[i] : i \in 1..Len(UISteps)} \ UISpecial)
  /\ pc' = UIAfter(pc) /\ out' = <<Line(pc, 0)>>
  /\ UNCHANGED <<script, browser, playwright, rc, raisedAt, timestamp>>
  /\ UNCHANGED frontVars /\ UNCHANGED envVars /\ UNCHANGED respVars

\* lines 60-61: page.wait_for_url('**/', timeout=5000) returns, or raises
\* TimeoutError inside the try block
UWaitUrl ==
  /\ script = "ui" /\ pc = "wait_url"
  /\ pc' \in {"login_ok", "login_except"} /\ out' = <<>>
  /\ UNCHANGED <<script, browser, playwright, rc, raisedAt, timestamp>>
  /\ UNCHANGED frontVars /\ UNCHANGED envVars /\ UNCHANGED respVars

\* line 62: print the success line
ULoginOk ==
  /\ script = "ui" /\ pc = "login_ok"
  /\ pc' = UIAfter("wait_url") /\ out' = <<Line("login_ok", 0)>>
  /\ UNCHANGED <<script, browser, playwright, rc, raisedAt, timestamp>>
  /\ UNCHANGED frontVars /\ UNCHANGED envVars /\ UNCHANGED respVars

\* lines 63-64: except: print the warning line
ULoginExcept ==
  /\ script = "ui" /\ pc = "login_except"
  /\ pc' = UIAfter("wait_url") /\ out' = <<Line("login_warning", 0)>>
  /\ UNCHANGED <<script, browser, playwright, rc, raisedAt, timestamp>>
  /\ UNCHANGED frontVars /\ UNCHANGED envVars /\ UNCHANGED respVars

\* lines 175-176: timestamp = time.strftime('%Y%m%d_%H%M%S')
UStrftime ==
  /\ UIAt({"strftime"})
  /\ \E t \in Times : timestamp' = Strftime(t)
  /\ pc' = UIAfter(pc) /\ out' = <<Line("screenshots", 0)>>
  /\ UNCHANGED <<script, browser, playwright, rc, raisedAt>>
  /\ UNCHANGED frontVars /\ UNCHANGED envVars /\ UNCHANGED respVars

\* an assert fails: AssertionError leaves the function, the with block of
\* line 10 is left and the interpreter exits with a traceback and status 1
UAssertFail ==
  /\ UIAt(UIAsserts)
  /\ pc' = "crashed" /\ raisedAt' = pc /\ out' = <<Line("assertion", 0)>>
  /\ playwright' = "stopped" /\ rc' = 1
  /\ UNCHANGED <<script, browser, timestamp>>
  /\ UNCHANGED frontVars /\ UNCHANGED envVars /\ UNCHANGED respVars

\* a browser call raises: nothing catches it
UThrow ==
  /\ UIAt(UIThrowing)
  /\ pc' = "crashed" /\ raisedAt' = pc /\ out' = <<Line("traceback", 0)>>
  /\ playwright' = "stopped" /\ rc' = 1
  /\ UNCHANGED <<script, browser, timestamp>>
  /\ UNCHANGED frontVars /\ UNCHANGED envVars /\ UNCHANGED respVars

\* line 190: browser.close()
UClose ==
  /\ UIAt({"close"})
  /\ browser' = "closed"
  /\ pc' = "summary" /\ out' = <<>>
  /\ UNCHANGED <<script, playwright, rc, raisedAt, timestamp>>
  /\ UNCHANGED frontVars /\ UNCHANGED envVars /\ UNCHANGED respVars

\* lines 192-204: the summary; the with block ends; the script exits
USummary ==
  /\ script = "ui" /\ pc = "summary"
  /\ out' = <<Line("ui_done", 0)>>
  /\ playwright' = "stopped" /\ rc' = 0
  /\ pc' = "done"
  /\ UNCHANGED <<script, browser, raisedAt, timestamp>>
  /\ UNCHANGED frontVars /\ UNCHANGED envVars /\ UNCHANGED respVars

UINext ==
  \/ ULaunch \/ UStep \/ UWaitUrl \/ ULoginOk \/ ULoginExcept \/ UStrftime \/ UAssertFail \/ UThrow
  \/ UClose \/ USummary

-----------------------------------------------------------------------------
(* The run of one script *)

Scripts == {"frontend", "responsive", "ui"}

\* p.chromium.launch or browser.new_page raises: in each script the call is
\* outside every try block
LaunchFails ==
  /\ pc = "launch"
  /\ pc' = "crashed" /\ raisedAt' = "launch" /\ out' = <<Line("traceback", 0)>>
  /\ playwright' = "stopped" /\ rc' = 1
  /\ UNCHANGED <<script, browser, timestamp>>
  /\ UNCHANGED frontVars /\ UNCHANGED envVars /\ UNCHANGED respVars

Init ==
  /\ script \in Scripts
  /\ pc = "launch"
  /\ browser = "none" /\ playwright = "none"
  /\ rc = -1 /\ out = <<>> /\ raisedAt = ""
  /\ results = <<>> /\ console_errors = <<>> /\ failed_requests = <<>>
  /\ listeners = {} /\ netlog = <<>> /\ conlog = <<>> /\ health = 0
  /\ dev = 0 /\ pg = 0 /\ timestamp = <<>> /\ screenshots = <<>>
  /\ scroll_width = 0 /\ buttons = <<>> /\ small_buttons = 0
  /\ pair_fail = <<>>

Next == FrontendNext \/ ResponsiveNext \/ UINext \/ LaunchFails

Spec == Init /\ [][Next]_vars


-----------------------------------------------------------------------------
(* Properties *)

IsFrontend   == script = "frontend"
IsResponsive == script = "responsive"
IsUI         == script = "ui"

Ended == pc \in {"done", "crashed"}

AllPassed == \A i \in 1..Len(results) : results[i][2]

HasResult(label) == \E i \in 1..Len(results) : results[i][1] = label

ResultOf(label) ==
  results[CHOOSE i \in 1..Len(results) : results[i][1] = label][2]

\* C1: when test_frontend returns, its exit code is 0 exactly when every
\* entry of results is True, and 1 otherwise, whether the check sequence ran
\* to its end or was cut short by an exception.
C1_ExitCodeIffAllPassed ==
  (IsFrontend /\ pc = "done") =>
     /\ rc \in {0, 1}
     /\ rc = 0 <=> AllPassed

\* C1 witness: a run whose seven checks all passed returned 0.
C1_Witness ==
  IsFrontend /\ pc = "done" /\ rc = 0 /\ Len(results) = 7 /\ raisedAt = ""

\* C2 (as claimed): in every script, a run that launched the browser has
\* closed it when the run ends, on every exit path.
C2_BrowserClosedOnEveryExit ==
  (Ended /\ browser # "none") => browser = "closed"

\* the statement after the login step
AfterLogin == IF IsResponsive THEN "strftime" ELSE "idle_after_login"

\* C3: in test_responsive_design and test_ui_design the wait for the
\* authenticated route never ends the run: it returns or its timeout enters
\* the handler, and the handler prints the warning and moves to the
\* statement after the login step with no exit status set and no exception
\* left over.
C3_LoginTimeoutContinues ==
  [][ (IsResponsive \/ IsUI) =>
        /\ pc = "wait_url" =>
             (pc' \in {"login_ok", "login_except"} /\ rc' = -1 /\ raisedAt' = "")
        /\ pc = "login_except" =>
             /\ pc' = AfterLogin
             /\ out' = <<Line("login_warning", 0)>>
             /\ rc' = -1 /\ raisedAt' = "" /\ browser' = "open" ]_vars

\* C3 witness: the warning was printed and the run is at the next statement.
C3_Witness ==
  /\ IsResponsive \/ IsUI
  /\ out = <<Line("login_warning", 0)>> /\ pc = AfterLogin /\ rc = -1

IsDigit(c) == \E n \in 0..9 : c = Digit(n)

\* YYYYMMDD_HHMMSS
IsTimestamp(t) ==
  /\ Len(t) = 15
  /\ t[9] = "_"
  /\ \A k \in (1..15) \ {9} : IsDigit(t[k])

HasTimestamp(name) ==
  \E i \in 1..(Len(name) - 14) : IsTimestamp(SubSeq(name, i, i + 14))

Pairs == (1..Len(DEVICE_SIZES)) \X (1..Len(PAGES_TO_TEST))

ShotsOf(d, p) ==
  {i \in 1..Len(screenshots) : screenshots[i].device = d /\ screenshots[i].page = p}

\* one screenshot per pair, 36 files, and the summary of lines 134-136
FullRunShots ==
  (IsResponsive /\ pc = "done") =>
     /\ Len(screenshots) = 36
     /\ \A pr \in Pairs : Cardinality(ShotsOf(pr[1], pr[2])) = 1
     /\ Cardinality({screenshots[i].name : i \in 1..Len(screenshots)}) = 36
     /\ out = <<Line("devices", 6), Line("pages", 6), Line("screenshots", 36)>>

\* C4 (as claimed): a full run takes one screenshot per pair, 36 in all,
\* each file name containing the device label, the page label and a
\* YYYYMMDD_HHMMSS timestamp, and the summary reports 6 devices and 6 pages.
C4_NamesContainDeviceLabel ==
  /\ FullRunShots
  /\ \A i \in 1..Len(screenshots) :
       /\ Contains(screenshots[i].name, DEVICE_SIZES[screenshots[i].device].name)
       /\ Contains(screenshots[i].name, PAGES_TO_TEST[screenshots[i].page].name)
       /\ HasTimestamp(screenshots[i].name)

\* the device label as it appears in a file name
Underscored(label) == [k \in 1..Len(label) |-> IF label[k] = " " THEN "_" ELSE label[k]]

\* C4 (amended): a full run takes one screenshot per pair, 36 in all, each
\* file name containing the device label with every space replaced by an
\* underscore, the page label and a YYYYMMDD_HHMMSS timestamp, and the
\* summary reports 6 devices and 6 pages.
C4_NamesContainUnderscoredLabel ==
  /\ FullRunShots
  /\ \A i \in 1..Len(screenshots) :
       /\ Contains(screenshots[i].name,
                   Underscored(DEVICE_SIZES[screenshots[i].device].name))
       /\ Contains(screenshots[i].name, PAGES_TO_TEST[screenshots[i].page].name)
       /\ HasTimestamp(screenshots[i].name)
       /\ Contains(screenshots[i].name, timestamp)

\* C4 witness: a full run ended with its 36 screenshots.
C4_Witness ==
  IsResponsive /\ pc = "done" /\ Len(screenshots) = 36 /\ rc = 0

\* the statements of a pair that follow the scroll check
AfterScroll == {"sidebar", "main", "cards", "touch", "screenshot"}

\* C5: for the pair being visited, no failure is recorded before the scroll
\* check; after it exactly one failure is recorded if scrollWidth exceeds the
\* viewport width plus 10 and none if it does not.
C5_OneScrollFailure ==
  IsResponsive =>
     /\ pc \in {"page_goto", "page_idle", "scroll"} => pair_fail = <<>>
     /\ pc \in AfterScroll =>
          IF scroll_width > DEVICE_SIZES[dev].width + 10
          THEN pair_fail = <<Line("scroll_fail", scroll_width)>>
          ELSE pair_fail = <<>>

\* C5 witness: the scroll width was 11 over the viewport width and the one
\* failure is recorded.
C5_Witness ==
  /\ IsResponsive /\ pc = "sidebar"
  /\ scroll_width = DEVICE_SIZES[dev].width + 11
  /\ Len(pair_fail) = 1

\* C6: the health check of test_frontend always moves on to the viewport
\* check, whatever the request did; it records "ApiProxy" as True exactly for
\* status 200 (False for any other status and for a raised request) and
\* changes nothing else; a run that is not cut short records all seven
\* results, the fourth being that of the health check.
C6_ApiFailureIsolated ==
  /\ [](IsFrontend /\ pc = "done" /\ raisedAt = "" =>
          /\ Len(results) = 7
          /\ results[4] = <<LabelApi, health = 200>>
          /\ <<results[1][1], results[2][1], results[3][1], results[5][1],
               results[6][1], results[7][1]>>
             = <<LabelHome, LabelNav, LabelAuth, LabelResponsive,
                 LabelResources, LabelJs>>)
  /\ [][ (IsFrontend /\ pc = "api" /\ pc' # "api") =>
           /\ pc' = "viewport"
           /\ health' \in {-1, 200, 503}
           /\ results' = Append(results, <<LabelApi, health' = 200>>)
           /\ UNCHANGED <<console_errors, failed_requests, listeners, browser,
                          playwright, rc, raisedAt, netlog, conlog>> ]_vars

\* C6 witness: the health request returned 503, the run went on and ended
\* with "ApiProxy" False among seven results.
C6_Witness ==
  /\ IsFrontend /\ pc = "done" /\ health = 503 /\ raisedAt = ""
  /\ Len(results) = 7 /\ results[4] = <<LabelApi, FALSE>>
  /\ results[7] = <<LabelJs, TRUE>>

\* the buttons the touch check samples
Sampled == 1..(IF Len(buttons) < 5 THEN Len(buttons) ELSE 5)

Undersized == {i \in Sampled : buttons[i].box /\
                 (buttons[i].width < 44 \/ buttons[i].height < 44)}

\* the touch check of the current pair has run
TouchDone == IsResponsive /\ pc = "screenshot"

\* the count and the line of the touch check; no check above 480
TouchCountExact ==
  TouchDone =>
     IF DEVICE_SIZES[dev].width <= 480
     THEN /\ small_buttons = Cardinality(Undersized)
          /\ out = IF Undersized = {} THEN <<Line("touch_ok", 0)>>
                   ELSE <<Line("touch_small", Cardinality(Undersized))>>
     ELSE out = <<>> /\ buttons = <<>> /\ small_buttons = 0

\* C7 (as claimed): for widths up to 480 the touch check counts exactly the
\* undersized boxes among the first five buttons, and prints the success
\* line only when every sampled button is at least 44 by 44; above 480 it is
\* not run.
C7_SuccessMeansEverySampledLargeEnough ==
  /\ TouchCountExact
  /\ (TouchDone /\ out = <<Line("touch_ok", 0)>>) =>
        \A i \in Sampled :
           buttons[i].box /\ buttons[i].width >= 44 /\ buttons[i].height >= 44

\* C7 (amended): as claimed, except that the success line is printed exactly
\* when every sampled button that has a bounding box is at least 44 by 44; a
\* sampled button without a bounding box is skipped.
C7_SuccessMeansEveryBoxLargeEnough ==
  /\ TouchCountExact
  /\ (TouchDone /\ DEVICE_SIZES[dev].width <= 480) =>
        (out = <<Line("touch_ok", 0)>> <=>
           \A i \in Sampled :
              buttons[i].box =>
                 (buttons[i].width >= 44 /\ buttons[i].height >= 44))

\* C7 witness: six buttons, two undersized among the first five, a sixth
\* undersized one that is not sampled.
C7_Witness ==
  /\ TouchDone /\ Len(buttons) = 6
  /\ Cardinality(Undersized) = 2 /\ small_buttons = 2
  /\ buttons[6].height < 44
  /\ \E i \in Sampled : ~buttons[i].box

\* the statements that wait for a navigation or for network idle
BoundedWaits ==
  {"goto", "wait_idle", "reload", "login_goto", "login_idle", "page_goto",
   "page_idle", "idle_after_login", "profile_goto", "profile_idle",
   "market_goto", "market_idle", "subscription_goto", "subscription_idle",
   "hot_goto", "hot_idle", "favorites_goto", "favorites_idle",
   "shot_home_goto", "shot_home_idle", "shot_profile_goto",
   "shot_profile_idle"}

RecordedBefore(at) ==
  CASE at \in {"goto", "title"} -> 0
    [] at \in {"shot_home", "nav"} -> 1
    [] at = "login_btn" -> 2
    [] at = "api" -> 3
    [] at \in {"viewport", "wait_idle", "shot_mobile"} -> 4
    [] at \in {"restore", "register", "reload"} -> 5
    [] OTHER -> 6

\* what a run of test_frontend that was cut short has done when it returns
CutShortOutcome ==
  /\ Len(results) = RecordedBefore(raisedAt) + 1
  /\ results[Len(results)] = <<LabelRun, FALSE>>
  /\ \A i \in 1..(Len(results) - 1) : results[i][1] # LabelRun
  /\ browser = "closed"
  /\ out = <<Line("passed", Passed(results)), Line("total", Len(results))>>
  /\ rc = 1

\* C9 (as claimed): in test_frontend an error raised at any point of the
\* check sequence, the health request included, is caught at the top level:
\* the earlier results are kept, "TestExecution" False is appended, the
\* browser is closed, the summary is printed and the run returns 1.
C9_AnyErrorReachesTopLevel ==
  (IsFrontend /\ pc = "done" /\ (raisedAt # "" \/ health = -1)) =>
     /\ results[Len(results)] = <<LabelRun, FALSE>>
     /\ browser = "closed" /\ rc = 1

\* C9 (amended): in test_frontend an error raised at any point of the check
\* sequence other than the health request (which has its own handler) is
\* caught at the top level: the earlier results are kept, "TestExecution"
\* False is appended, the browser is closed, the summary is printed and the
\* run returns 1.
C9_ErrorOutsideHealthReachesTopLevel ==
  /\ [](IsFrontend /\ pc = "done" /\ raisedAt # "" => CutShortOutcome)
  /\ [](IsFrontend /\ pc = "done" /\ raisedAt = "" => ~HasResult(LabelRun))
  /\ [][ IsFrontend =>
           /\ (pc \in FThrowing /\ raisedAt' # raisedAt) =>
                 (pc' = "except" /\ raisedAt' = pc /\ results' = results)
           /\ pc = "except" =>
                 results' = Append(results, <<LabelRun, FALSE>>) ]_vars

\* C9 witness: the reload raised; the five earlier results are kept and the
\* run returned 1.
C9_Witness ==
  /\ IsFrontend /\ pc = "done" /\ raisedAt = "reload"
  /\ Len(results) = 6 /\ results[5] = <<LabelResponsive, TRUE>>
  /\ results[6] = <<LabelRun, FALSE>> /\ rc = 1 /\ browser = "closed"

FailedDuringReload ==
  \E k \in 1..Len(netlog) : netlog[k].status >= 400 /\ netlog[k].during = "reload"

FailedEarlier ==
  \E k \in 1..Len(netlog) : netlog[k].status >= 400 /\ netlog[k].during = "earlier"

ConsoleErrorEmitted == \E k \in 1..Len(conlog) : conlog[k] = "error"

\* C10: "ResourceLoading" is False exactly when a response with status >= 400
\* arrived during the reload; a response that arrives before the reload
\* changes neither failed_requests nor a result.  "NoJsErrors" is False
\* exactly when a console error was emitted at any time of the run.
C10_ListenerWindows ==
  /\ [](IsFrontend /\ HasResult(LabelResources) =>
          (ResultOf(LabelResources) = FALSE <=> FailedDuringReload))
  /\ [](IsFrontend /\ HasResult(LabelJs) =>
          (ResultOf(LabelJs) = FALSE <=> ConsoleErrorEmitted))
  /\ [][ (IsFrontend /\ netlog' # netlog /\ pc # "reload") =>
           (failed_requests' = failed_requests /\ results' = results) ]_vars

\* C10 witness: a 400 before the reload and none during it left
\* "ResourceLoading" True, and a console error made "NoJsErrors" False.
C10_Witness ==
  /\ IsFrontend /\ pc = "done" /\ raisedAt = ""
  /\ FailedEarlier /\ ~FailedDuringReload
  /\ ResultOf(LabelResources) = TRUE
  /\ ConsoleErrorEmitted /\ ResultOf(LabelJs) = FALSE

=============================================================================
